---- MODULE Spec2Model ----
(***************************************************************************)
(* PlotTwist Arena: the Express backend (routes, database client, model    *)
(* client, logging middleware), the HumanGuessMode page that drives Mode 2 *)
(* and the socket.io multiplayer room server.                              *)
(*                                                                         *)
(* The specifications of the module:                                       *)
(*   SpecRooms  the multiplayer room server (websocket handlers)           *)
(*   SpecApi    the HTTP routes, db client, model client, Mode 2 page      *)
(*   SpecLog    the logging middleware under concurrent requests           *)
(*   SpecStream the SSE prediction stream client and its React hook        *)
(*   SpecReveal the TwistReveal component, its timers firing eventually    *)
(*   SpecServer the model server core: index, predictor, scorer, generator *)
(* Each one keeps the variables of the others at their initial value.      *)
(***************************************************************************)
EXTENDS Integers, Sequences, FiniteSets, TLC

\* ---------------------------------------------------------------- bounds
NumSockets == 3
MaxRoundCap == 2
MaxScoreCap == 1

\* ------------------------------------------------------- shared helpers
Undefined == "<undefined>"

\* JavaScript's a || b: '' and undefined are the falsy strings, 0 the falsy number
OrElse(a, b) == IF a \in {Undefined, ""} THEN b ELSE a

OrElseNum(a, b) == IF a = 0 THEN b ELSE a

SeqRemoveAt(s, i) == SubSeq(s, 1, i - 1) \o SubSeq(s, i + 1, Len(s))

VARIABLES
  \* multiplayer room server
  sockets,     \* socket id -> authenticated playerName, or Undefined when not connected
  rooms,       \* the rooms Map: code -> Room, for the codes stored
  timers,      \* codes with a pending 5-minute cleanup timer
  lastEmit,    \* events emitted by the last handler, in order
  reported,    \* history: code -> playerName -> sum of the scores round_result reported
               \* for that player of the stored room
  \* backend HTTP API
  serverPc,    \* startServer: "start", "listening" or "exited"
  db,          \* the Database singleton: pool and useFallback
  pgUp,        \* whether PostgreSQL accepts connections
  pg,          \* the PostgreSQL tables game_sessions, game_results, leaderboard
  now,         \* CURRENT_TIMESTAMP
  nreq,        \* number of operations performed so far
  lastReq,     \* the operation performed last: an HTTP request (route and body) or healthCheck()
  lastResp,    \* its response (status and JSON body), or the value healthCheck returned
  queryLog,    \* outcome of every db.query made while handling it
  modelLog,    \* every ModelClient call made while handling it
  predictLog,  \* history: valid /api/ai-guess bodies with the /predict-twist body sent
  generated,   \* history: stories the model server generated, by session id
  fe,          \* state of the HumanGuessMode page
  \* logging middleware
  logContext,  \* Logger.context of the logger singleton (<< >> is null)
  reqs,        \* per request: where its handling stands and its correlation id
  logEntries,  \* entries written to the console, each tagged with the request whose handling wrote it
  \* SSE prediction stream client
  eventSource, \* PredictionStreamClient.eventSource: the EventSource held, or NoSource (null)
  sources,     \* readyState of every EventSource constructed so far, in order of construction
  hook,        \* useStreamPredictions: dependencies, state and the cleanup React holds
  delivered,   \* history: callbacks delivered and cleanups called, each with its stream
  \* TwistReveal component
  stage,         \* 'blurred', 'typewriter' or 'revealed'
  displayedText, \* the characters typed so far
  skipped,       \* the skipped state
  effect,        \* timers of the current run of the stage effect, with the interval's currentIndex
  onCompleteProp,    \* whether the parent passes onComplete
  renders,           \* number of times the parent changed the onComplete prop
  pendingComplete,   \* setTimeout(onComplete, ..) timers not fired yet
  completeCalls,     \* calls of onComplete so far
  inputs,        \* history: clicks of Skip and keys pressed, each with the stage it found
  \* model server
  index,       \* the Vector Index built at startup: entries in corpus order (<< >>: not built)
  msReq,       \* the operation performed last, with its arguments
  msResp,      \* what it returned
  genLog       \* the invocations of the generative model it made: prompt and output

roomVars == <<sockets, rooms, timers, lastEmit, reported>>

apiVars == <<serverPc, db, pgUp, pg, now, nreq, lastReq, lastResp, queryLog, modelLog,
             predictLog, generated, fe>>

logVars == <<logContext, reqs, logEntries>>

streamVars == <<eventSource, sources, hook, delivered>>

revealVars == <<stage, displayedText, skipped, effect, onCompleteProp, renders,
                pendingComplete, completeCalls, inputs>>

serverVars == <<index, msReq, msResp, genLog>>

vars == <<sockets, rooms, timers, lastEmit, reported,
          serverPc, db, pgUp, pg, now, nreq, lastReq, lastResp, queryLog, modelLog,
          predictLog, generated, fe,
          logContext, reqs, logEntries,
          eventSource, sources, hook, delivered,
          stage, displayedText, skipped, effect, onCompleteProp, renders,
          pendingComplete, completeCalls, inputs,
          index, msReq, msResp, genLog>>

\* ===================================================== multiplayer rooms
Sockets == 1..NumSockets
PlayerNames == {"alice", "bob", "carol"}
\* the names a connection may authenticate as: two connections can share a name
TokenNames(s) == IF s = 1 THEN {"alice"} ELSE IF s = 2 THEN {"alice", "bob"} ELSE {"carol"}
\* generateRoomCode draws 6 random characters; two draws can coincide, which the
\* single code makes happen on every second create_room
RoomCodes == {"AAAAAA"}
\* values a client may send as data.maxRounds (0 stands for an absent field)
MaxRoundsInputs == {0, 1}
ScoreInputs == {0, 1}
DefaultMaxRounds == 3
RoomCapacity == 2

PlayerInfo(socketId, name) == [socketId |-> socketId, name |-> name, score |-> 0]

\* Map.has / Map.get / Map.set / Map.delete on room.players, kept in insertion order
PlayersHas(players, name) == \E i \in 1..Len(players) : players[i].name = name

PlayersIndex(players, name) == CHOOSE i \in 1..Len(players) : players[i].name = name

PlayersSet(players, info) ==
  IF PlayersHas(players, info.name)
  THEN [players EXCEPT ![PlayersIndex(players, info.name)] = info]
  ELSE Append(players, info)

PlayersDelete(players, name) ==
  IF PlayersHas(players, name)
  THEN SeqRemoveAt(players, PlayersIndex(players, name))
  ELSE players

sanitizeRoom(room) ==
  [code |-> room.code,
   players |-> [i \in 1..Len(room.players) |->
                  [name |-> room.players[i].name, score |-> room.players[i].score]],
   status |-> room.status,
   currentRound |-> room.currentRound,
   maxRounds |-> room.maxRounds]

RoomsDelete(rs, code) == [c \in (DOMAIN rs) \ {code} |-> rs[c]]

RoomsSet(rs, code, room) == [c \in (DOMAIN rs) \cup {code} |-> IF c = code THEN room ELSE rs[c]]

ToSocket(s, event, payload) == [to |-> "socket", target |-> ToString(s), event |-> event, payload |-> payload]

ToRoom(code, event, payload) == [to |-> "room", target |-> code, event |-> event, payload |-> payload]

\* history of a room nobody has been scored in
NoReports == [n \in PlayerNames |-> 0]

\* io.use authentication middleware + io.on('connection')
Connect(s, name) ==
  /\ sockets[s] = Undefined
  /\ sockets' = [sockets EXCEPT ![s] = name]
  /\ lastEmit' = << >>
  /\ UNCHANGED <<rooms, timers, reported>>

create_room(s, code, maxRoundsIn) ==
  /\ sockets[s] # Undefined
  /\ LET playerName == sockets[s]
         room == [code |-> code,
                  players |-> <<PlayerInfo(s, playerName)>>,
                  status |-> "waiting",
                  currentRound |-> 0,
                  maxRounds |-> OrElseNum(maxRoundsIn, DefaultMaxRounds)]
     IN /\ rooms' = RoomsSet(rooms, code, room)
        /\ lastEmit' = <<ToSocket(s, "room_created",
                                   [code |-> code, room |-> sanitizeRoom(room)])>>
  /\ reported' = [reported EXCEPT ![code] = NoReports]
  /\ UNCHANGED <<sockets, timers>>

JoinGuardFullOffByOne(room) == Len(room.players) > RoomCapacity

\* room.players.size >= 2
JoinGuardFull(room) == Len(room.players) >= RoomCapacity

\* a guard that lets started rooms through
JoinGuardStartedNever(room) == FALSE

\* room.status !== 'waiting'
JoinGuardStarted(room) == room.status # "waiting"

join_room(s, code) ==
  /\ sockets[s] # Undefined
  /\ IF code \notin DOMAIN rooms
     THEN /\ lastEmit' = <<ToSocket(s, "error", [message |-> "Room not found"])>>
          /\ UNCHANGED rooms
     ELSE IF JoinGuardStarted(rooms[code])
     THEN /\ lastEmit' = <<ToSocket(s, "error", [message |-> "Room already started"])>>
          /\ UNCHANGED rooms
     ELSE IF JoinGuardFull(rooms[code])
     THEN /\ lastEmit' = <<ToSocket(s, "error", [message |-> "Room is full"])>>
          /\ UNCHANGED rooms
     ELSE LET playerName == sockets[s]
              room == [rooms[code] EXCEPT
                         !.players = PlayersSet(@, PlayerInfo(s, playerName))]
          IN /\ rooms' = [rooms EXCEPT ![code] = room]
                  /\ lastEmit' = <<ToRoom(code, "player_joined",
                                     [playerName |-> playerName,
                                      room |-> sanitizeRoom(room)])>>
  /\ UNCHANGED <<sockets, timers, reported>>

\* a guard that lets a single player start
StartGuardAlone(room) == Len(room.players) < 1

\* room.players.size < 2
StartGuardTooFew(room) == Len(room.players) < 2

start_round(s, code) ==
  /\ sockets[s] # Undefined
  /\ IF code \notin DOMAIN rooms
     THEN /\ lastEmit' = << >>
          /\ UNCHANGED rooms
     ELSE IF StartGuardTooFew(rooms[code])
     THEN /\ lastEmit' = <<ToSocket(s, "error", [message |-> "Need 2 players to start"])>>
          /\ UNCHANGED rooms
     ELSE /\ rooms[code].currentRound < MaxRoundCap
          /\ rooms' = [rooms EXCEPT ![code].status = "playing",
                                    ![code].currentRound = @ + 1]
          /\ lastEmit' = <<ToRoom(code, "round_started",
                                  [round |-> rooms'[code].currentRound,
                                   maxRounds |-> rooms'[code].maxRounds])>>
  /\ UNCHANGED <<sockets, timers, reported>>

submit_guess(s, code) ==
  /\ sockets[s] # Undefined
  /\ IF code \notin DOMAIN rooms
     THEN lastEmit' = << >>
     ELSE lastEmit' = <<ToRoom(code, "guess_submitted",
                               [playerName |-> sockets[s],
                                round |-> rooms[code].currentRound])>>
  /\ UNCHANGED <<sockets, rooms, timers, reported>>

\* scores.sort((a, b) => b.score - a.score): a stable sort, descending by score
RECURSIVE InsertDesc(_, _)
InsertDesc(sorted, e) ==
  IF sorted = << >> THEN <<e>>
  ELSE IF Head(sorted).score >= e.score
       THEN <<Head(sorted)>> \o InsertDesc(Tail(sorted), e)
       ELSE <<e>> \o sorted

RECURSIVE SortDesc(_)
SortDesc(s) ==
  IF s = << >> THEN << >>
  ELSE InsertDesc(SortDesc(SubSeq(s, 1, Len(s) - 1)), s[Len(s)])

FinalScores(room) ==
  SortDesc([i \in 1..Len(room.players) |->
              [name |-> room.players[i].name, score |-> room.players[i].score]])

round_result(s, code, playerName, score) ==
  /\ sockets[s] # Undefined
  /\ IF code \notin DOMAIN rooms
     THEN /\ lastEmit' = << >>
          /\ UNCHANGED <<rooms, timers, reported>>
     ELSE LET room == rooms[code]
              has == PlayersHas(room.players, playerName)
              idx == PlayersIndex(room.players, playerName)
              players1 == IF has
                          THEN [room.players EXCEPT ![idx].score = @ + score]
                          ELSE room.players
              total == IF has THEN players1[idx].score ELSE 0
              finish == room.currentRound >= room.maxRounds
              room1 == [room EXCEPT !.players = players1,
                                    !.status = IF finish THEN "finished" ELSE @]
              scores == FinalScores(room1)
              updated == ToRoom(code, "score_updated",
                                [playerName |-> playerName, score |-> score,
                                 totalScore |-> total])
          IN /\ has => reported[code][playerName] + score <= MaxScoreCap
             /\ rooms' = [rooms EXCEPT ![code] = room1]
             /\ reported' = IF has
                            THEN [reported EXCEPT ![code][playerName] = @ + score]
                            ELSE reported
             /\ IF finish
                THEN /\ lastEmit' = <<updated,
                                     ToRoom(code, "match_finished",
                                            [winner |-> IF scores = << >> THEN << >>
                                                        ELSE <<scores[1]>>,
                                             scores |-> scores])>>
                     /\ timers' = timers \cup {code}
                ELSE /\ lastEmit' = <<updated>>
                     /\ UNCHANGED timers
  /\ UNCHANGED sockets

\* a callback that fires and leaves the room stored
CleanupTimerKeeping(code) ==
  /\ code \in timers
  /\ timers' = timers \ {code}
  /\ lastEmit' = << >>
  /\ UNCHANGED <<sockets, rooms, reported>>

\* the setTimeout callback registered by round_result
CleanupTimer(code) ==
  /\ code \in timers
  /\ timers' = timers \ {code}
  /\ rooms' = RoomsDelete(rooms, code)
  /\ lastEmit' = << >>
  /\ reported' = [reported EXCEPT ![code] = NoReports]
  /\ UNCHANGED sockets

\* an emptiness test that never deletes a room
RoomIsEmptyNever(room) == FALSE

\* room.players.size === 0
RoomIsEmpty(room) == Len(room.players) = 0

leave_room(s, code) ==
  /\ sockets[s] # Undefined
  /\ IF code \notin DOMAIN rooms
     THEN /\ lastEmit' = << >>
          /\ UNCHANGED <<rooms, reported>>
     ELSE LET playerName == sockets[s]
              room == [rooms[code] EXCEPT !.players = PlayersDelete(@, playerName)]
          IN /\ lastEmit' = <<ToRoom(code, "player_left",
                                     [playerName |-> playerName,
                                      room |-> sanitizeRoom(room)])>>
             /\ rooms' = IF RoomIsEmpty(room)
                         THEN RoomsDelete(rooms, code)
                         ELSE [rooms EXCEPT ![code] = room]
             /\ reported' = [reported EXCEPT ![code][playerName] = 0]
  /\ UNCHANGED <<sockets, timers>>

\* rooms.forEach in the disconnect handler: every room holding the name loses it
DisconnectRoom(room, playerName) ==
  [room EXCEPT !.players = PlayersDelete(@, playerName)]

\* one player_left per room that held the name
RECURSIVE EmitPlayerLeft(_, _)
EmitPlayerLeft(codes, playerName) ==
  IF codes = {} THEN << >>
  ELSE LET c == CHOOSE x \in codes : TRUE
       IN <<ToRoom(c, "player_left", [playerName |-> playerName])>>
            \o EmitPlayerLeft(codes \ {c}, playerName)

disconnect(s) ==
  /\ sockets[s] # Undefined
  /\ LET playerName == sockets[s]
         hit == {c \in DOMAIN rooms : PlayersHas(rooms[c].players, playerName)}
         kept == {c \in DOMAIN rooms :
                    ~ RoomIsEmpty(DisconnectRoom(rooms[c], playerName))}
     IN /\ rooms' = [c \in kept |-> DisconnectRoom(rooms[c], playerName)]
        /\ lastEmit' = EmitPlayerLeft(hit, playerName)
        /\ reported' = [c \in RoomCodes |->
                          IF c \in hit THEN [reported[c] EXCEPT ![playerName] = 0]
                          ELSE reported[c]]
  /\ sockets' = [sockets EXCEPT ![s] = Undefined]
  /\ UNCHANGED timers

NextRooms ==
  \/ \E s \in Sockets : \E n \in TokenNames(s) : Connect(s, n) /\ UNCHANGED <<apiVars, logVars, streamVars, revealVars, serverVars>>
  \/ \E s \in Sockets, c \in RoomCodes, m \in MaxRoundsInputs : create_room(s, c, m) /\ UNCHANGED <<apiVars, logVars, streamVars, revealVars, serverVars>>
  \/ \E s \in Sockets, c \in RoomCodes : join_room(s, c) /\ UNCHANGED <<apiVars, logVars, streamVars, revealVars, serverVars>>
  \/ \E s \in Sockets, c \in RoomCodes : start_round(s, c) /\ UNCHANGED <<apiVars, logVars, streamVars, revealVars, serverVars>>
  \/ \E s \in Sockets, c \in RoomCodes : submit_guess(s, c) /\ UNCHANGED <<apiVars, logVars, streamVars, revealVars, serverVars>>
  \/ \E s \in Sockets, c \in RoomCodes, n \in PlayerNames, sc \in ScoreInputs :
        round_result(s, c, n, sc) /\ UNCHANGED <<apiVars, logVars, streamVars, revealVars, serverVars>>
  \/ \E c \in RoomCodes : CleanupTimer(c) /\ UNCHANGED <<apiVars, logVars, streamVars, revealVars, serverVars>>
  \/ \E s \in Sockets, c \in RoomCodes : leave_room(s, c) /\ UNCHANGED <<apiVars, logVars, streamVars, revealVars, serverVars>>
  \/ \E s \in Sockets : disconnect(s) /\ UNCHANGED <<apiVars, logVars, streamVars, revealVars, serverVars>>

\* ======================================================= backend HTTP API
MaxRequests == 3
MaxRandomId == 1
MaxClock == 1

SetupGhost == "A ghost haunts a house"
TwistGhost == "The ghost is alive"
SetupButler == "The butler serves dinner"
TwistButler == "The butler did it"

\* Math.floor(Math.random() * 10000) of the fallback query: a few of its values
RandomIds == 0..MaxRandomId

NullId == -1

\* ---- PostgreSQL: the tables of createTables and the statements the routes send
EmptyTables == [game_sessions |-> << >>, game_results |-> << >>, leaderboard |-> << >>]

Thrown(P) == [ok |-> FALSE, rows |-> << >>, pg |-> P]

Rows(P, rows) == [ok |-> TRUE, rows |-> rows, pg |-> P]

\* INSERT INTO game_sessions (mode, player_name) VALUES ($1, $2) RETURNING id
InsertSession(P, mode, player_name) ==
  LET id == Len(P.game_sessions) + 1
  IN Rows([P EXCEPT !.game_sessions =
             Append(@, [id |-> id, mode |-> mode, player_name |-> player_name,
                        created_at |-> now])],
          <<[id |-> id]>>)

SessionExists(P, id) == \E i \in 1..Len(P.game_sessions) : P.game_sessions[i].id = id

ResultExists(P, id) == \E i \in 1..Len(P.game_results) : P.game_results[i].id = id

\* INSERT INTO game_results (...) VALUES (...) RETURNING id; session_id REFERENCES game_sessions(id)
InsertResult(P, session_id, mode, story_setup, actual_twist, guessed_twist, score, justification) ==
  IF ~SessionExists(P, session_id) THEN Thrown(P)
  ELSE LET id == Len(P.game_results) + 1
       IN Rows([P EXCEPT !.game_results =
                  Append(@, [id |-> id, session_id |-> session_id, mode |-> mode,
                             story_setup |-> story_setup, actual_twist |-> actual_twist,
                             guessed_twist |-> guessed_twist, score |-> score,
                             justification |-> justification, created_at |-> now])],
               <<[id |-> id]>>)

\* SELECT player_name FROM game_sessions WHERE id = $1
SelectPlayerName(P, id) ==
  Rows(P, SelectSeq([i \in 1..Len(P.game_sessions) |->
                       [player_name |-> P.game_sessions[i].player_name,
                        id |-> P.game_sessions[i].id]],
                    LAMBDA r : r.id = id))

\* INSERT INTO leaderboard (player_name, mode, score, game_result_id) VALUES ($1, $2, $3, $4)
\* mode is NOT NULL; game_result_id is NULL or REFERENCES game_results(id)
InsertLeaderboard(P, player_name, mode, score, game_result_id) ==
  IF mode = Undefined THEN Thrown(P)
  ELSE IF game_result_id # NullId /\ ~ResultExists(P, game_result_id) THEN Thrown(P)
  ELSE Rows([P EXCEPT !.leaderboard =
               Append(@, [id |-> Len(P.leaderboard) + 1, player_name |-> player_name,
                          mode |-> mode, score |-> score,
                          game_result_id |-> game_result_id, created_at |-> now])],
            << >>)

LeaderboardEntry(row) ==
  [player_name |-> row.player_name, mode |-> row.mode, score |-> row.score,
   created_at |-> row.created_at]

\* ORDER BY score DESC, created_at DESC
OrderedBefore(a, b) ==
  \/ a.score > b.score
  \/ a.score = b.score /\ a.created_at >= b.created_at

IsOrdered(rows) == \A i, j \in 1..Len(rows) : i < j => OrderedBefore(rows[i], rows[j])

\* SELECT player_name, mode, score, created_at FROM leaderboard [WHERE mode = $1]
\*   ORDER BY score DESC, created_at DESC LIMIT $n
\* order: the order PostgreSQL picks among rows equal in score and created_at
SelectLeaderboard(P, whereMode, limit, order) ==
  IF limit < 0 THEN Thrown(P)
  ELSE LET hits == {i \in 1..Len(P.leaderboard) :
                      whereMode = Undefined \/ P.leaderboard[i].mode = whereMode}
           sorted == [k \in 1..Cardinality(hits) |-> LeaderboardEntry(P.leaderboard[order[k]])]
           n == IF limit < Len(sorted) THEN limit ELSE Len(sorted)
       IN Rows(P, SubSeq(sorted, 1, n))

\* the orders PostgreSQL may return the selected rows in
LeaderboardOrders(P, whereMode) ==
  LET hits == {i \in 1..Len(P.leaderboard) :
                 whereMode = Undefined \/ P.leaderboard[i].mode = whereMode}
  IN {o \in [1..Cardinality(hits) -> hits] :
        /\ \A i, j \in 1..Cardinality(hits) : i # j => o[i] # o[j]
        /\ IsOrdered([k \in 1..Cardinality(hits) |-> P.leaderboard[o[k]]])}

\* ---- Database (db/client.ts)
queryWithoutFallback(P, stmt, rnd) ==
  IF db.pool = "null" \/ ~pgUp THEN Thrown(P) ELSE stmt

\* Database.query: stmt is the result PostgreSQL gives for the statement
query(P, stmt, rnd) ==
  IF db.useFallback
  THEN Rows(P, <<[id |-> rnd]>>)
  ELSE IF db.pool = "null" \/ ~pgUp THEN Thrown(P)
  ELSE stmt

\* rows[0]?.field of a query result
Field(rows, k) ==
  IF Len(rows) > 0 /\ k \in DOMAIN rows[1] THEN rows[1][k] ELSE Undefined

QueryEntry(q) == [ok |-> q.ok, rowCount |-> Len(q.rows)]

\* ---- ModelClient (services/model-client.ts)
HttpFailed == [ok |-> FALSE, data |-> [error |-> "Network Error"]]

HttpOk(data) == [ok |-> TRUE, data |-> data]

HttpCallRetrying(endpoint, body, outcome) ==
  [endpoint |-> endpoint, body |-> body, attempts |-> IF outcome.ok THEN 1 ELSE 2,
   ok |-> outcome.ok, data |-> outcome.data]

\* one axios.post / axios.get: the call as made and what came back
HttpCall(endpoint, body, outcome) ==
  [endpoint |-> endpoint, body |-> body, attempts |-> 1,
   ok |-> outcome.ok, data |-> outcome.data]

PredictBody(request) ==
  [story_setup |-> request.story_setup,
   genre |-> request.genre,
   num_predictions |-> OrElseNum(request.num_predictions, 3)]

predictTwist(request, outcome) == HttpCall("/predict-twist", PredictBody(request), outcome)

generateStory(request, outcome) ==
  HttpCall("/generate-story",
           [genre |-> request.genre, difficulty |-> OrElse(request.difficulty, "medium")],
           outcome)

scoreGuess(request, outcome) ==
  HttpCall("/semantic-score",
           [guess |-> request.guess, actual_twist |-> request.actual_twist],
           outcome)

healthCheck(outcome) ==
  LET call == HttpCall("/health", [none |-> Undefined], outcome)
  IN [call |-> call, value |-> IF call.ok THEN call.data.status = "healthy" ELSE FALSE]

\* ---- what the model server may answer (confidences and scores in hundredths / points)
PredictResponses ==
  {[predictions |-> << >>, confidence_scores |-> << >>],
   [predictions |-> <<TwistGhost>>, confidence_scores |-> <<90>>],
   [predictions |-> <<TwistButler, TwistGhost>>, confidence_scores |-> <<80, 60>>],
   [predictions |-> <<TwistGhost, TwistButler, "It was all a dream">>,
    confidence_scores |-> <<90, 70, 50>>]}

Stories ==
  {[story_setup |-> SetupGhost, hidden_twist |-> TwistGhost, genre |-> "horror"],
   [story_setup |-> SetupButler, hidden_twist |-> TwistButler, genre |-> "mystery"]}

ScoreResponses ==
  {[score |-> 40, justification |-> "partial match",
    similarity_breakdown |-> [cosine_similarity |-> 40]],
   [score |-> 90, justification |-> "excellent match",
    similarity_breakdown |-> [cosine_similarity |-> 90]]}

HealthResponses == {[status |-> "healthy"], [status |-> "loading"]}

Outcomes(responses) == {HttpFailed} \cup {HttpOk(d) : d \in responses}

\* ---- zod schemas (routes/ai-guess.ts, routes/human-guess.ts)
StrMin(x, n) == x # Undefined /\ Len(x) >= n

JsonInt(n) == [kind |-> "int", v |-> n]

aiGuessSchema(body) == StrMin(body.story_setup, 10) /\ StrMin(body.actual_twist, 5)

scoreTwistSchema(body) ==
  /\ body.session_id.kind = "int"
  /\ StrMin(body.actual_twist, 5)
  /\ StrMin(body.selected_prediction, 5)

\* humanGuessSchema with session_id: z.number()
humanGuessSchemaAnyNumber(body) ==
  /\ StrMin(body.story_setup, 0)
  /\ StrMin(body.hidden_twist, 0)
  /\ StrMin(body.player_guess, 5)

humanGuessSchema(body) ==
  /\ body.session_id.kind = "int"
  /\ StrMin(body.story_setup, 0)
  /\ StrMin(body.hidden_twist, 0)
  /\ StrMin(body.player_guess, 5)

\* ---- route handlers: the response and the effects of one request
Handled(status, body, P, queries, calls) ==
  [status |-> status, body |-> body, pg |-> P, queries |-> queries, calls |-> calls]

ErrorBody(message) == [error |-> message]

RECURSIVE PadTo(_, _, _)
PadTo(s, n, filler) == IF Len(s) >= n THEN s ELSE PadTo(Append(s, filler), n, filler)

AiGuessResponsePadded(sessionId, data) ==
  [session_id |-> sessionId,
   predictions |-> PadTo(data.predictions, 3, ""),
   confidence_scores |-> PadTo(data.confidence_scores, 3, 0)]

AiGuessResponse(sessionId, data) ==
  [session_id |-> sessionId,
   predictions |-> data.predictions,
   confidence_scores |-> data.confidence_scores]

\* the request /api/ai-guess hands to modelClient.predictTwist
PredictRequestLeaking(body) ==
  [story_setup |-> body.actual_twist, genre |-> body.genre, num_predictions |-> 3]

PredictRequest(body) ==
  [story_setup |-> body.story_setup, genre |-> body.genre, num_predictions |-> 3]

\* POST /api/ai-guess
AiGuessHandler(body, rnd, outcome) ==
  IF ~aiGuessSchema(body)
  THEN Handled(400, ErrorBody("ZodError"), pg, << >>, << >>)
  ELSE LET q1 == query(pg, InsertSession(pg, "ai_guess", OrElse(body.player_name, "Anonymous")), rnd)
           call == predictTwist(PredictRequest(body), outcome)
       IN IF ~q1.ok
          THEN Handled(400, ErrorBody("query failed"), q1.pg, <<QueryEntry(q1)>>, << >>)
          ELSE IF ~call.ok
          THEN Handled(400, ErrorBody(call.data.error), q1.pg, <<QueryEntry(q1)>>, <<call>>)
          ELSE Handled(200, AiGuessResponse(q1.rows[1].id, call.data), q1.pg,
                       <<QueryEntry(q1)>>, <<call>>)

\* the tail shared by /api/score-twist and /api/human-guess: save the result, look the
\* player up, add the leaderboard row
SaveScore(session_id, mode, story_setup, actual_twist, guess, scoreResult, rnd) ==
  LET q1 == query(pg, InsertResult(pg, session_id, mode, story_setup, actual_twist, guess,
                                   scoreResult.score, scoreResult.justification), rnd)
      q2 == query(q1.pg, SelectPlayerName(q1.pg, session_id), rnd)
      playerName == OrElse(Field(q2.rows, "player_name"), "Anonymous")
      q3 == query(q2.pg, InsertLeaderboard(q2.pg, playerName, mode, scoreResult.score,
                                           q1.rows[1].id), rnd)
  IN IF ~q1.ok THEN [ok |-> FALSE, pg |-> q1.pg, queries |-> <<QueryEntry(q1)>>]
     ELSE IF ~q2.ok THEN [ok |-> FALSE, pg |-> q2.pg,
                          queries |-> <<QueryEntry(q1), QueryEntry(q2)>>]
     ELSE [ok |-> q3.ok, pg |-> q3.pg,
           queries |-> <<QueryEntry(q1), QueryEntry(q2), QueryEntry(q3)>>]

\* POST /api/score-twist
ScoreTwistHandler(body, rnd, outcome) ==
  IF ~scoreTwistSchema(body)
  THEN Handled(400, ErrorBody("ZodError"), pg, << >>, << >>)
  ELSE LET call == scoreGuess([guess |-> body.selected_prediction,
                               actual_twist |-> body.actual_twist], outcome)
           saved == SaveScore(body.session_id.v, "ai_guess", "", body.actual_twist,
                              body.selected_prediction, call.data, rnd)
       IN IF ~call.ok
          THEN Handled(400, ErrorBody(call.data.error), pg, << >>, <<call>>)
          ELSE IF ~saved.ok
          THEN Handled(400, ErrorBody("query failed"), saved.pg, saved.queries, <<call>>)
          ELSE Handled(200,
                       [score |-> call.data.score,
                        justification |-> call.data.justification,
                        breakdown |-> call.data.similarity_breakdown],
                       saved.pg, saved.queries, <<call>>)

GenerateStoryResponse(sessionId, story) ==
  [session_id |-> sessionId,
   story_setup |-> story.story_setup,
   genre |-> story.genre,
   _hidden_twist |-> story.hidden_twist]

\* POST /api/generate-story
GenerateStoryHandler(body, rnd, outcome) ==
  LET q1 == query(pg, InsertSession(pg, "human_guess", OrElse(body.player_name, "Anonymous")), rnd)
      call == generateStory([genre |-> body.genre,
                             difficulty |-> OrElse(body.difficulty, "medium")], outcome)
  IN IF ~q1.ok
     THEN Handled(400, ErrorBody("query failed"), q1.pg, <<QueryEntry(q1)>>, << >>)
     ELSE IF ~call.ok
     THEN Handled(400, ErrorBody(call.data.error), q1.pg, <<QueryEntry(q1)>>, <<call>>)
     ELSE Handled(200, GenerateStoryResponse(q1.rows[1].id, call.data), q1.pg,
                  <<QueryEntry(q1)>>, <<call>>)

\* POST /api/human-guess
HumanGuessHandler(body, rnd, outcome) ==
  IF ~humanGuessSchema(body)
  THEN Handled(400, ErrorBody("ZodError"), pg, << >>, << >>)
  ELSE LET call == scoreGuess([guess |-> body.player_guess,
                               actual_twist |-> body.hidden_twist], outcome)
           saved == SaveScore(body.session_id.v, "human_guess", body.story_setup,
                              body.hidden_twist, body.player_guess, call.data, rnd)
       IN IF ~call.ok
          THEN Handled(400, ErrorBody(call.data.error), pg, << >>, <<call>>)
          ELSE IF ~saved.ok
          THEN Handled(400, ErrorBody("query failed"), saved.pg, saved.queries, <<call>>)
          ELSE Handled(200,
                       [score |-> call.data.score,
                        justification |-> call.data.justification,
                        actual_twist |-> body.hidden_twist,
                        breakdown |-> call.data.similarity_breakdown],
                       saved.pg, saved.queries, <<call>>)

\* ---- GET /api/leaderboard and POST /api/submit-score (routes/leaderboard.ts)
DigitValue == [c \in {"0", "1", "2", "3", "4", "5", "6", "7", "8", "9"} |->
                 CASE c = "0" -> 0 [] c = "1" -> 1 [] c = "2" -> 2 [] c = "3" -> 3
                   [] c = "4" -> 4 [] c = "5" -> 5 [] c = "6" -> 6 [] c = "7" -> 7
                   [] c = "8" -> 8 [] c = "9" -> 9]

NaN == [nan |-> TRUE, v |-> 0]

RECURSIVE SkipSpaces(_)
SkipSpaces(cs) == IF cs # << >> /\ Head(cs) = " " THEN SkipSpaces(Tail(cs)) ELSE cs

\* value of the longest digit prefix of cs, acc being the value read so far
RECURSIVE DigitPrefix(_, _, _)
DigitPrefix(cs, acc, seen) ==
  IF cs # << >> /\ Head(cs) \in DOMAIN DigitValue
  THEN DigitPrefix(Tail(cs), acc * 10 + DigitValue[Head(cs)], TRUE)
  ELSE IF seen THEN [nan |-> FALSE, v |-> acc] ELSE NaN

\* JavaScript parseInt(string) in radix 10, the string given as its characters
parseInt(cs) ==
  LET t == SkipSpaces(cs)
      neg == t # << >> /\ Head(t) = "-"
      u == IF t # << >> /\ Head(t) \in {"-", "+"} THEN Tail(t) ELSE t
      d == DigitPrefix(u, 0, FALSE)
  IN IF d.nan THEN NaN ELSE [nan |-> FALSE, v |-> IF neg THEN 0 - d.v ELSE d.v]

\* req.query.limit when the parameter is absent: parseInt(undefined) reads "undefined"
AbsentParam == <<"u", "n", "d", "e", "f", "i", "n", "e", "d">>

DefaultLimit == 10

\* parseInt(req.query.limit) || 10
LimitOf(cs) == LET n == parseInt(cs) IN IF n.nan \/ n.v = 0 THEN DefaultLimit ELSE n.v

\* the WHERE clause is added only for the two known modes
WhereMode(mode) == IF mode \in {"ai_guess", "human_guess"} THEN mode ELSE Undefined

LeaderboardHandler(q, rnd, order) ==
  LET r == query(pg, SelectLeaderboard(pg, WhereMode(q.mode), LimitOf(q.limit), order), rnd)
  IN IF ~r.ok
     THEN Handled(500, ErrorBody("Failed to fetch leaderboard"), r.pg, <<QueryEntry(r)>>, << >>)
     ELSE Handled(200, [leaderboard |-> r.rows], r.pg, <<QueryEntry(r)>>, << >>)

SubmitScoreHandler(body, rnd) ==
  LET r == query(pg, InsertLeaderboard(pg, OrElse(body.player_name, "Anonymous"), body.mode,
                                       body.score, body.game_result_id), rnd)
  IN IF ~r.ok
     THEN Handled(400, ErrorBody("Failed to submit score"), r.pg, <<QueryEntry(r)>>, << >>)
     ELSE Handled(200, [success |-> TRUE], r.pg, <<QueryEntry(r)>>, << >>)

\* ---- request bodies the clients send
AiGuessBodies ==
  {[story_setup |-> SetupGhost, genre |-> "horror", player_name |-> "Alice",
    actual_twist |-> TwistGhost],
   [story_setup |-> SetupGhost, genre |-> "horror", player_name |-> "Alice",
    actual_twist |-> TwistButler],
   [story_setup |-> SetupGhost, genre |-> "horror", player_name |-> "Alice",
    actual_twist |-> "no"],
   [story_setup |-> SetupGhost, genre |-> Undefined, player_name |-> Undefined,
    actual_twist |-> TwistGhost],
   [story_setup |-> "A ghost", genre |-> "horror", player_name |-> "Alice",
    actual_twist |-> TwistGhost]}

ScoreTwistBodies ==
  {[session_id |-> JsonInt(1), actual_twist |-> TwistGhost, selected_prediction |-> TwistGhost],
   [session_id |-> JsonInt(2), actual_twist |-> TwistGhost, selected_prediction |-> TwistButler],
   [session_id |-> JsonInt(1), actual_twist |-> TwistGhost, selected_prediction |-> "no"],
   [session_id |-> [kind |-> "float", v |-> 1], actual_twist |-> TwistGhost,
    selected_prediction |-> TwistGhost]}

\* a body the page never sends (its session_id is the integer /api/generate-story returned)
HumanGuessBodies ==
  {[session_id |-> [kind |-> "float", v |-> 1], story_setup |-> SetupGhost,
    hidden_twist |-> TwistGhost, player_guess |-> TwistButler]}

LeaderboardQueries ==
  {[mode |-> m, limit |-> l] :
     m \in {Undefined, "ai_guess", "everyone"},
     l \in {AbsentParam, <<"0">>, <<"1">>, <<"-", "1">>, <<"2", "x">>}}

SubmitScoreBodies ==
  {[player_name |-> "Bob", mode |-> "ai_guess", score |-> 90, game_result_id |-> NullId],
   [player_name |-> "Bob", mode |-> "human_guess", score |-> 40, game_result_id |-> NullId],
   [player_name |-> Undefined, mode |-> "ai_guess", score |-> 40, game_result_id |-> 1],
   [player_name |-> "Bob", mode |-> "duel", score |-> 90, game_result_id |-> NullId],
   [player_name |-> "Bob", mode |-> Undefined, score |-> 90, game_result_id |-> NullId]}

\* what the player may have typed into the textarea, and the name in the game store
GuessInputs == {TwistGhost, "hm", "   "}
StorePlayerNames == {"", "Alice"}

\* String.prototype.trim on the inputs above
Trim(g) == IF g = "   " THEN "" ELSE g

\* ---- Database.initialize and startServer (db/client.ts, index.ts)
initialize(up) ==
  IF up
  THEN [threw |-> FALSE, db |-> [pool |-> "pool", useFallback |-> FALSE]]
  ELSE [threw |-> FALSE, db |-> [pool |-> "pool", useFallback |-> TRUE]]

NoRequest == [route |-> "none", body |-> [none |-> Undefined]]
NoResponse == [status |-> 0, body |-> [none |-> Undefined]]

InitPage ==
  [pc |-> "mount", storySetup |-> "", sessionId |-> NullId, playerGuess |-> "",
   scoreResult |-> << >>, tempStory |-> ""]

startServer ==
  /\ serverPc = "start"
  /\ LET r == initialize(pgUp)
     IN /\ db' = r.db
        /\ serverPc' = IF r.threw THEN "exited" ELSE "listening"
  /\ UNCHANGED <<pgUp, pg, now, nreq, lastReq, lastResp, queryLog, modelLog,
                 predictLog, generated, fe>>

\* time passes; only a later timestamp than one already stored can be told apart
Tick ==
  /\ now < MaxClock
  /\ \E i \in 1..Len(pg.leaderboard) : pg.leaderboard[i].created_at = now
  /\ now' = now + 1
  /\ UNCHANGED <<serverPc, db, pgUp, pg, nreq, lastReq, lastResp, queryLog, modelLog,
                 predictLog, generated, fe>>

\* one request handled: the response sent and the effects kept
Respond(route, body, o) ==
  /\ serverPc = "listening"
  /\ nreq < MaxRequests
  /\ nreq' = nreq + 1
  /\ lastReq' = [route |-> route, body |-> body]
  /\ lastResp' = [status |-> o.status, body |-> o.body]
  /\ pg' = o.pg
  /\ queryLog' = o.queries
  /\ modelLog' = o.calls
  /\ UNCHANGED <<serverPc, db, pgUp, now>>

PostAiGuess ==
  \E body \in AiGuessBodies, rnd \in RandomIds, outcome \in Outcomes(PredictResponses) :
    LET o == AiGuessHandler(body, rnd, outcome)
    IN /\ Respond("ai-guess", body, o)
       /\ predictLog' = predictLog \cup
                          {[req |-> body, sent |-> o.calls[i].body] : i \in 1..Len(o.calls)}
       /\ UNCHANGED <<generated, fe>>

PostScoreTwist ==
  \E body \in ScoreTwistBodies, rnd \in RandomIds, outcome \in Outcomes(ScoreResponses) :
    /\ Respond("score-twist", body, ScoreTwistHandler(body, rnd, outcome))
    /\ UNCHANGED <<predictLog, generated, fe>>

PostHumanGuess ==
  \E body \in HumanGuessBodies, rnd \in RandomIds, outcome \in Outcomes(ScoreResponses) :
    /\ Respond("human-guess", body, HumanGuessHandler(body, rnd, outcome))
    /\ UNCHANGED <<predictLog, generated, fe>>

GetLeaderboard ==
  \E q \in LeaderboardQueries, rnd \in RandomIds :
    \E order \in LeaderboardOrders(pg, WhereMode(q.mode)) :
      /\ Respond("leaderboard", q, LeaderboardHandler(q, rnd, order))
      /\ UNCHANGED <<predictLog, generated, fe>>

PostSubmitScore ==
  \E body \in SubmitScoreBodies, rnd \in RandomIds :
    /\ Respond("submit-score", body, SubmitScoreHandler(body, rnd))
    /\ UNCHANGED <<predictLog, generated, fe>>

HealthCheck ==
  /\ nreq < MaxRequests
  /\ nreq' = nreq + 1
  /\ \E outcome \in Outcomes(HealthResponses) :
       LET h == healthCheck(outcome)
       IN /\ lastReq' = [route |-> "healthCheck()", body |-> [none |-> Undefined]]
          /\ lastResp' = [status |-> 0, body |-> [value |-> h.value]]
          /\ modelLog' = <<h.call>>
  /\ queryLog' = << >>
  /\ UNCHANGED <<serverPc, db, pgUp, pg, now, predictLog, generated, fe>>

\* ---- the HumanGuessMode page (pages/HumanGuessMode.tsx), the caller of Mode 2
StoryRecord(o) ==
  [session_id |-> o.body.session_id,
   story_setup |-> o.calls[1].data.story_setup,
   hidden_twist |-> o.calls[1].data.hidden_twist]

\* useEffect on mount -> handleGenerateStory
handleGenerateStory ==
  /\ fe.pc = "mount"
  /\ \E name \in StorePlayerNames, rnd \in RandomIds, outcome \in Outcomes(Stories) :
       LET body == [genre |-> Undefined, difficulty |-> "medium",
                    player_name |-> OrElse(name, Undefined)]
           o == GenerateStoryHandler(body, rnd, outcome)
       IN /\ Respond("generate-story", body, o)
          /\ IF o.status = 200
             THEN /\ fe' = [fe EXCEPT !.pc = "ready",
                                      !.sessionId = o.body.session_id,
                                      !.storySetup = o.body.story_setup]
                  /\ generated' = generated \cup {StoryRecord(o)}
             ELSE /\ fe' = [fe EXCEPT !.pc = "ready"]
                  /\ UNCHANGED generated
  /\ UNCHANGED predictLog

\* handleSubmitGuess up to the answer of its own generateStory call
handleSubmitGuess ==
  /\ fe.pc = "ready"
  /\ fe.storySetup # ""
  /\ fe.scoreResult = << >>
  /\ \E g \in GuessInputs :
       IF Trim(g) = "" \/ fe.sessionId \in {NullId, 0}
       THEN /\ fe' = [fe EXCEPT !.playerGuess = g]
            /\ UNCHANGED <<serverPc, db, pgUp, pg, now, nreq, lastReq, lastResp, queryLog,
                           modelLog, generated>>
       ELSE \E rnd \in RandomIds, outcome \in Outcomes(Stories) :
              LET body == [genre |-> Undefined, difficulty |-> "medium",
                           player_name |-> Undefined]
                  o == GenerateStoryHandler(body, rnd, outcome)
              IN /\ Respond("generate-story", body, o)
                 /\ IF o.status = 200
                    THEN /\ fe' = [fe EXCEPT !.pc = "submitting",
                                             !.playerGuess = g,
                                             !.tempStory = o.body.story_setup]
                         /\ generated' = generated \cup {StoryRecord(o)}
                    ELSE /\ fe' = [fe EXCEPT !.playerGuess = g]
                         /\ UNCHANGED generated
  /\ UNCHANGED predictLog

\* the rest of handleSubmitGuess: submitHumanGuess and the result shown
submitHumanGuess ==
  /\ fe.pc = "submitting"
  /\ \E rnd \in RandomIds, outcome \in Outcomes(ScoreResponses) :
       LET body == [session_id |-> JsonInt(fe.sessionId),
                    story_setup |-> fe.storySetup,
                    hidden_twist |-> fe.tempStory,
                    player_guess |-> fe.playerGuess]
           o == HumanGuessHandler(body, rnd, outcome)
       IN /\ Respond("human-guess", body, o)
          /\ fe' = [fe EXCEPT !.pc = "ready",
                              !.scoreResult = IF o.status = 200 THEN <<o.body>> ELSE @]
  /\ UNCHANGED <<predictLog, generated>>

handlePlayAgain ==
  /\ fe.pc = "ready"
  /\ fe.scoreResult # << >>
  /\ fe' = [fe EXCEPT !.storySetup = "", !.playerGuess = "", !.sessionId = NullId,
                      !.scoreResult = << >>]
  /\ UNCHANGED <<serverPc, db, pgUp, pg, now, nreq, lastReq, lastResp, queryLog, modelLog,
                 predictLog, generated>>

NextApi ==
  \/ startServer /\ UNCHANGED <<roomVars, logVars, streamVars, revealVars, serverVars>>
  \/ Tick /\ UNCHANGED <<roomVars, logVars, streamVars, revealVars, serverVars>>
  \/ PostAiGuess /\ UNCHANGED <<roomVars, logVars, streamVars, revealVars, serverVars>>
  \/ PostScoreTwist /\ UNCHANGED <<roomVars, logVars, streamVars, revealVars, serverVars>>
  \/ PostHumanGuess /\ UNCHANGED <<roomVars, logVars, streamVars, revealVars, serverVars>>
  \/ GetLeaderboard /\ UNCHANGED <<roomVars, logVars, streamVars, revealVars, serverVars>>
  \/ PostSubmitScore /\ UNCHANGED <<roomVars, logVars, streamVars, revealVars, serverVars>>
  \/ HealthCheck /\ UNCHANGED <<roomVars, logVars, streamVars, revealVars, serverVars>>
  \/ handleGenerateStory /\ UNCHANGED <<roomVars, logVars, streamVars, revealVars, serverVars>>
  \/ handleSubmitGuess /\ UNCHANGED <<roomVars, logVars, streamVars, revealVars, serverVars>>
  \/ submitHumanGuess /\ UNCHANGED <<roomVars, logVars, streamVars, revealVars, serverVars>>
  \/ handlePlayAgain /\ UNCHANGED <<roomVars, logVars, streamVars, revealVars, serverVars>>

\* ==================================================== logging middleware
NumLogRequests == 3

LogRequests == 1..NumLogRequests
\* the x-correlation-id header a client may send (Undefined: none)
ClientCorrelationIds == {Undefined, "client-id"}

\* generateId(): a timestamp and nine random characters, fresh for every request
generateId(r) == "generated-" \o ToString(r)

NoContext == << >>

\* Logger.log with this.context = context: { level, message, ...this.context, ...data }
LogEntry(context, level, message, data) ==
  LET base == [level |-> level, message |-> message]
      ctx == IF context = NoContext THEN base ELSE context[1]
  IN data @@ ctx @@ base

\* loggingMiddleware up to next(): sets the header and the context, logs the request
loggingMiddleware(r, hdr) ==
  /\ reqs[r].pc = "new"
  /\ LET correlationId == OrElse(hdr, generateId(r))
         context == [correlationId |-> correlationId, method |-> "POST", url |-> "/api"]
     IN /\ reqs' = [reqs EXCEPT ![r] = [pc |-> "handling", header |-> correlationId]]
        /\ logContext' = <<context>>
        /\ logEntries' = logEntries \cup
             {[req |-> r,
               entry |-> LogEntry(<<context>>, "INFO", "Incoming request",
                                  [body |-> "sanitized"])]}

\* the patched res.send, called when the route handler answers
resSend(r) ==
  /\ reqs[r].pc = "handling"
  /\ reqs' = [reqs EXCEPT ![r].pc = "sent"]
  /\ logEntries' = logEntries \cup
       {[req |-> r, entry |-> LogEntry(logContext, "INFO", "Outgoing response",
                                      [statusCode |-> "200"])]}
  /\ UNCHANGED logContext

NextLog ==
  \/ \E r \in LogRequests, hdr \in ClientCorrelationIds :
        loggingMiddleware(r, hdr) /\ UNCHANGED <<roomVars, apiVars, streamVars, revealVars, serverVars>>
  \/ \E r \in LogRequests : resSend(r) /\ UNCHANGED <<roomVars, apiVars, streamVars, revealVars, serverVars>>

\* ============================================== SSE prediction stream
MaxStreams == 3
MaxUpdates == 2

NoSource == 0
\* the EventSource objects the client constructs, numbered in order of construction
StreamIds == 1..MaxStreams
\* the storySetup argument of the hook (Undefined: null)
StorySetups == {Undefined, "setup A", "setup B"}
\* event.data of a message: a progress update, the final message, or text that is not JSON
MessageData == {"analyzing", "complete", "not json"}

Delivered(s, what) == Append(delivered, [stream |-> s, what |-> what])

UpdatesOf(s) ==
  Cardinality({i \in 1..Len(delivered) :
                 delivered[i].stream = s /\ delivered[i].what = "onUpdate"})

\* close(): nulls the field and leaves the EventSource open
closeLeavingOpen(es, srcs) == [eventSource |-> NoSource, sources |-> srcs]

\* close(): closes the EventSource the field holds, if any, and nulls the field
close(es, srcs) ==
  IF es # NoSource
  THEN [eventSource |-> NoSource, sources |-> [srcs EXCEPT ![es] = "CLOSED"]]
  ELSE [eventSource |-> es, sources |-> srcs]

\* streamPredictions: constructs an EventSource and stores it in the field
streamPredictions(es, srcs) ==
  [eventSource |-> Len(srcs) + 1, sources |-> Append(srcs, "OPEN")]

\* the options the hook passes: what each callback does to the hook's state
onUpdate(h, data) == [h EXCEPT !.status = data]

onComplete(h) == [h EXCEPT !.status = "complete", !.isLoading = FALSE]

onError(h, err) == [h EXCEPT !.error = err, !.isLoading = FALSE, !.status = "error"]

InitHook ==
  [mounted |-> TRUE, storySetup |-> Undefined, status |-> "idle", isLoading |-> FALSE,
   error |-> "null", cleanup |-> NoSource]

\* the effect of useStreamPredictions runs because storySetup changed: React first calls
\* the cleanup the previous run returned, then runs the effect body
useEffect(setup) ==
  /\ hook.mounted
  /\ setup # hook.storySetup
  /\ setup # Undefined => Len(sources) < MaxStreams
  /\ LET cleaned == IF hook.cleanup # NoSource
                    THEN close(eventSource, sources)
                    ELSE [eventSource |-> eventSource, sources |-> sources]
         log == IF hook.cleanup # NoSource
                THEN Delivered(hook.cleanup, "cleanup") ELSE delivered
         started == streamPredictions(cleaned.eventSource, cleaned.sources)
     IN IF setup = Undefined
        THEN /\ eventSource' = cleaned.eventSource
             /\ sources' = cleaned.sources
             /\ hook' = [hook EXCEPT !.storySetup = setup, !.cleanup = NoSource]
             /\ delivered' = log
        ELSE /\ eventSource' = started.eventSource
             /\ sources' = started.sources
             /\ hook' = [hook EXCEPT !.storySetup = setup, !.isLoading = TRUE,
                                     !.error = "null", !.cleanup = started.eventSource]
             /\ delivered' = log

\* the component using the hook unmounts: React calls the cleanup of the last run
unmount ==
  /\ hook.mounted
  /\ LET cleaned == IF hook.cleanup # NoSource
                    THEN close(eventSource, sources)
                    ELSE [eventSource |-> eventSource, sources |-> sources]
     IN /\ eventSource' = cleaned.eventSource
        /\ sources' = cleaned.sources
        /\ delivered' = IF hook.cleanup # NoSource
                        THEN Delivered(hook.cleanup, "cleanup") ELSE delivered
        /\ hook' = [hook EXCEPT !.mounted = FALSE, !.cleanup = NoSource]

\* eventSource.onmessage of stream s; the browser dispatches events of open sources only
onmessage(s, data) ==
  /\ s \in 1..Len(sources)
  /\ sources[s] = "OPEN"
  /\ data = "analyzing" => UpdatesOf(s) < MaxUpdates
  /\ IF data = "analyzing"
     THEN /\ hook' = onUpdate(hook, data)
          /\ delivered' = Delivered(s, "onUpdate")
          /\ UNCHANGED <<eventSource, sources>>
     ELSE LET closed == close(eventSource, sources)
          IN /\ hook' = IF data = "complete" THEN onComplete(hook)
                        ELSE onError(hook, "SyntaxError")
             /\ delivered' = Delivered(s, IF data = "complete" THEN "onComplete"
                                          ELSE "onError")
             /\ eventSource' = closed.eventSource
             /\ sources' = closed.sources

\* eventSource.onerror of stream s
onerror(s) ==
  /\ s \in 1..Len(sources)
  /\ sources[s] = "OPEN"
  /\ LET closed == close(eventSource, sources)
     IN /\ hook' = onError(hook, "Stream connection error")
        /\ delivered' = Delivered(s, "onError")
        /\ eventSource' = closed.eventSource
        /\ sources' = closed.sources

NextStream ==
  \/ \E setup \in StorySetups :
        useEffect(setup) /\ UNCHANGED <<roomVars, apiVars, logVars, revealVars, serverVars>>
  \/ unmount /\ UNCHANGED <<roomVars, apiVars, logVars, revealVars, serverVars>>
  \/ \E s \in StreamIds, data \in MessageData :
        onmessage(s, data) /\ UNCHANGED <<roomVars, apiVars, logVars, revealVars, serverVars>>
  \/ \E s \in StreamIds : onerror(s) /\ UNCHANGED <<roomVars, apiVars, logVars, revealVars, serverVars>>

\* ================================================= TwistReveal component
TwistLen == 3
MaxInputs == 2
MaxRenders == 1

\* the twistText prop, as its sequence of characters
TwistText == [i \in 1..TwistLen |-> ToString(i)]

\* keys the user may press
Keys == {" ", "Enter", "Escape", "a"}

\* handleKeyPress skips on every key but Escape
SkipKeysWithoutEscape == {" ", "Enter"}

\* the keys handleKeyPress skips on
SkipKeys == {" ", "Enter", "Escape"}

NoTimers == [timer |-> "none", currentIndex |-> 0]

\* an effect that sets the blur timeout again once the text is revealed
StageEffectRestarting(st, sk) ==
  IF sk THEN NoTimers
  ELSE IF st = "typewriter" THEN [timer |-> "interval", currentIndex |-> 0]
  ELSE [timer |-> "timeout", currentIndex |-> 0]

\* an effect that never starts the typewriter interval
StageEffectWithoutInterval(st, sk) ==
  IF sk THEN NoTimers
  ELSE IF st = "blurred" THEN [timer |-> "timeout", currentIndex |-> 0]
  ELSE NoTimers

\* one run of the stage-progression effect: the timers it sets for (stage, skipped)
StageEffect(st, sk) ==
  IF sk THEN NoTimers
  ELSE IF st = "blurred" THEN [timer |-> "timeout", currentIndex |-> 0]
  ELSE IF st = "typewriter" THEN [timer |-> "interval", currentIndex |-> 0]
  ELSE NoTimers

Input(via) == Append(inputs, [via |-> via, from |-> stage, onComplete |-> onCompleteProp])

\* skip(): the state it sets; the effect cleanup clears the timers and the next run sets none
skip ==
  /\ skipped' = TRUE
  /\ stage' = "revealed"
  /\ displayedText' = TwistText
  /\ pendingComplete' = IF onCompleteProp THEN pendingComplete + 1 ELSE pendingComplete
  /\ effect' = StageEffect("revealed", TRUE)
  /\ UNCHANGED <<onCompleteProp, renders, completeCalls>>

\* the Skip button, rendered while stage !== 'revealed'
clickSkip ==
  /\ Len(inputs) < MaxInputs
  /\ stage # "revealed"
  /\ inputs' = Input("button")
  /\ skip

\* handleKeyPress, the keydown listener on window
handleKeyPress(key) ==
  /\ Len(inputs) < MaxInputs
  /\ inputs' = Input(key)
  /\ IF key \in SkipKeys
     THEN skip
     ELSE UNCHANGED <<stage, displayedText, skipped, effect, onCompleteProp, renders,
                      pendingComplete, completeCalls>>

\* the parent renders TwistReveal with or without onComplete: the prop is a dependency of
\* the stage effect, which is cleaned up and run again
render(passed) ==
  /\ renders < MaxRenders
  /\ passed # onCompleteProp
  /\ onCompleteProp' = passed
  /\ renders' = renders + 1
  /\ effect' = StageEffect(stage, skipped)
  /\ UNCHANGED <<stage, displayedText, skipped, pendingComplete, completeCalls, inputs>>

\* the 1500 ms timeout of the blurred stage fires
blurTimeout ==
  /\ effect.timer = "timeout"
  /\ stage' = "typewriter"
  /\ effect' = StageEffect("typewriter", skipped)
  /\ UNCHANGED <<displayedText, skipped, onCompleteProp, renders, pendingComplete,
                 completeCalls, inputs>>

\* one tick of typeInterval
typeInterval ==
  /\ effect.timer = "interval"
  /\ IF effect.currentIndex <= Len(TwistText)
     THEN /\ displayedText' = SubSeq(TwistText, 1, effect.currentIndex)
          /\ effect' = [effect EXCEPT !.currentIndex = @ + 1]
          /\ UNCHANGED <<stage, pendingComplete>>
     ELSE /\ stage' = "revealed"
          /\ pendingComplete' = IF onCompleteProp THEN pendingComplete + 1
                                ELSE pendingComplete
          /\ effect' = StageEffect("revealed", skipped)
          /\ UNCHANGED displayedText
  /\ UNCHANGED <<skipped, onCompleteProp, renders, completeCalls, inputs>>

\* a setTimeout(onComplete, ..) timer fires
onCompleteTimeout ==
  /\ pendingComplete > 0
  /\ pendingComplete' = pendingComplete - 1
  /\ completeCalls' = completeCalls + 1
  /\ UNCHANGED <<stage, displayedText, skipped, effect, onCompleteProp, renders, inputs>>

NextReveal ==
  \/ clickSkip /\ UNCHANGED <<roomVars, apiVars, logVars, streamVars, serverVars>>
  \/ \E key \in Keys : handleKeyPress(key) /\ UNCHANGED <<roomVars, apiVars, logVars, streamVars, serverVars>>
  \/ \E passed \in BOOLEAN : render(passed) /\ UNCHANGED <<roomVars, apiVars, logVars, streamVars, serverVars>>
  \/ blurTimeout /\ UNCHANGED <<roomVars, apiVars, logVars, streamVars, serverVars>>
  \/ typeInterval /\ UNCHANGED <<roomVars, apiVars, logVars, streamVars, serverVars>>
  \/ onCompleteTimeout /\ UNCHANGED <<roomVars, apiVars, logVars, streamVars, serverVars>>

\* ================================================== model server (core)
\* The prediction, scoring and generation core behind /predict-twist, /semantic-score and
\* /generate-story.  Texts are sequences of words; similarities, overlaps and confidences
\* are in hundredths.
MaxCorpus == 2
MaxPredictions == 3

\* ---- Text Embedder: a fixed direction for every text (eighths of a turn)
WordsButler == <<"the", "butler", "did", "it">>
WordsMurder == <<"the", "butler", "committed", "the", "murder">>
WordsAliens == <<"aliens", "invaded", "earth">>
WordsHouse == <<"a", "ghost", "haunts", "a", "house">>
WordsCastle == <<"a", "ghost", "haunts", "a", "castle">>
WordsManor == <<"a", "murder", "at", "the", "manor">>
WordsStorm == <<"a", "storm", "at", "sea">>

Direction(text) ==
  CASE text \in {WordsButler, WordsHouse, WordsCastle} -> 0
    [] text \in {WordsMurder, WordsStorm} -> 1
    [] text = WordsManor -> 2
    [] text = WordsAliens -> 4
    [] OTHER -> 6

\* embed(text): fails on the empty text
embed(text) ==
  IF text = << >> THEN [error |-> "EmbeddingError"] ELSE [vector |-> Direction(text)]

\* cosine of the angle between two directions
CosineSimilarity(u, v) == <<100, 71, 0, -71, -100, -71, 0, 71>>[((u - v) % 8) + 1]

\* ---- Hybrid Scorer
WordSet(text) == {text[i] : i \in DOMAIN text}

\* Clamp that lets every value through
ClampNothing(x, lo, hi) == x

Clamp(x, lo, hi) == IF x < lo THEN lo ELSE IF x > hi THEN hi ELSE x

\* shared elements over the union, 0 when either set is empty
Overlap(A, B) ==
  IF A = {} \/ B = {} THEN 0
  ELSE (100 * Cardinality(A \cap B)) \div Cardinality(A \cup B)

\* the weighted combination alone, without the exact-match case
FinalScoreBlendOnly(guess, actual, cos, lex, tag) ==
  Clamp((70 * cos + 20 * lex + 10 * tag) \div 100, 0, 100)

\* final_score: 100 for identical strings, else the 70/20/10 combination clamped to [0,100]
FinalScore(guess, actual, cos, lex, tag) ==
  IF guess = actual THEN 100
  ELSE Clamp((70 * cos + 20 * lex + 10 * tag) \div 100, 0, 100)

Justification(final) ==
  IF final >= 80 THEN "excellent match"
  ELSE IF final >= 40 THEN "partial match" ELSE "weak match"

score(guess, actual_twist, tags_guess, tags_actual) ==
  IF guess = << >> \/ actual_twist = << >>
  THEN [error |-> "ScoringError"]
  ELSE LET cos == Clamp(CosineSimilarity(embed(guess).vector, embed(actual_twist).vector),
                        0, 100)
           lex == Overlap(WordSet(guess), WordSet(actual_twist))
           tag == Overlap(tags_guess, tags_actual)
           final == FinalScore(guess, actual_twist, cos, lex, tag)
       IN [cosine_similarity |-> cos, lexical_overlap |-> lex, tag_overlap |-> tag,
           final_score |-> final, justification |-> Justification(final)]

\* ---- Vector Index
ExamplePool ==
  {[id |-> 1, genre |-> "horror", story_setup |-> WordsHouse,
    twist |-> <<"the", "ghost", "is", "alive">>, tags |-> {"horror"}],
   [id |-> 2, genre |-> "mystery", story_setup |-> WordsManor,
    twist |-> WordsButler, tags |-> {"mystery"}],
   [id |-> 3, genre |-> "horror", story_setup |-> WordsCastle,
    twist |-> <<"the", "castle", "is", "a", "stage">>, tags |-> {"horror", "ghost"}]}

\* the corpora the server may be started with: examples with distinct ids
Corpora ==
  {c \in UNION {[1..n -> ExamplePool] : n \in 0..MaxCorpus} :
     \A i, j \in DOMAIN c : i # j => c[i].id # c[j].id}

\* build(examples): one entry per example, in corpus order, with the vector of its setup
indexBuild(examples) ==
  IF examples = << >> THEN [error |-> "IndexBuildError"]
  ELSE [index |-> [i \in DOMAIN examples |->
                     [example |-> examples[i],
                      vector |-> embed(examples[i].story_setup).vector]]]

\* query that puts the later of two equally similar entries first
indexQueryLatestFirst(idx, v, k) ==
  LET n == Len(idx)
      sim(i) == CosineSimilarity(idx[i].vector, v)
      rank(i) == 1 + Cardinality({j \in 1..n :
                                    sim(j) > sim(i) \/ (sim(j) = sim(i) /\ j > i)})
  IN [r \in 1..(IF k < n THEN k ELSE n) |->
        LET i == CHOOSE i \in 1..n : rank(i) = r
        IN [example |-> idx[i].example, similarity |-> sim(i)]]

\* query(vector, k): the k most similar entries (all when k exceeds the size), most
\* similar first, equally similar entries in corpus order
indexQuery(idx, v, k) ==
  LET n == Len(idx)
      sim(i) == CosineSimilarity(idx[i].vector, v)
      rank(i) == 1 + Cardinality({j \in 1..n :
                                    sim(j) > sim(i) \/ (sim(j) = sim(i) /\ j < i)})
  IN [r \in 1..(IF k < n THEN k ELSE n) |->
        LET i == CHOOSE i \in 1..n : rank(i) = r
        IN [example |-> idx[i].example, similarity |-> sim(i)]]

\* ---- generative model: what one invocation may return
GenFailed == [ok |-> FALSE]

Candidates ==
  <<WordsButler, WordsAliens, <<"the", "ghost", "is", "alive">>, <<"it", "was", "a", "dream">>>>

\* for a prediction prompt: failure, or a numbered list of no, two or four twists
PredictionOutputs ==
  {GenFailed} \cup {[ok |-> TRUE, candidates |-> SubSeq(Candidates, 1, m)] : m \in {0, 2, 4}}

\* for a story prompt: text with or without the SETUP: and TWIST: sections
StoryOutputs ==
  {<<"SETUP:", "ghost", "house", "TWIST:", "alive">>,
   <<"ghost", "house", "alive">>,
   <<"SETUP:", "ghost", "house">>,
   <<"SETUP:", "TWIST:", "alive">>,
   << >>}

\* for the stricter prompt of the retry
RetryOutputs ==
  {<<"SETUP:", "ghost", "castle", "TWIST:", "stage">>,
   <<"SETUP:", "ghost", "house">>,
   << >>}

\* ---- Retrieval-Augmented Predictor
\* confidence that grows along the ranking
ConfidenceRising(i) == Clamp(80 + 10 * (i - 1), 0, 100)

\* confidence of the i-th candidate: 1.0, 0.9, 0.8, ... never below 0
Confidence(i) == Clamp(100 - 10 * (i - 1), 0, 100)

GenreMatches(idx, genre) == SelectSeq(idx, LAMBDA e : e.example.genre = genre)

\* retrieval that returns nothing when no example has the genre
retrieveStrict(idx, v, genre) ==
  IF genre # Undefined THEN indexQuery(GenreMatches(idx, genre), v, 3)
  ELSE indexQuery(idx, v, 3)

\* step 2: top-K of the examples of the genre, of all examples when none has the genre
retrieve(idx, v, genre) ==
  IF genre # Undefined /\ GenreMatches(idx, genre) # << >>
  THEN indexQuery(GenreMatches(idx, genre), v, 3)
  ELSE indexQuery(idx, v, 3)

FewShotPrompt(retrieved, story_setup, num_predictions) ==
  [instruction |-> "predict",
   examples |-> [i \in DOMAIN retrieved |->
                   [story_setup |-> retrieved[i].example.story_setup,
                    twist |-> retrieved[i].example.twist]],
   story_setup |-> story_setup,
   num_predictions |-> num_predictions]

\* predict: the response and the generative-model invocation made
predict(idx, story_setup, genre, num_predictions, output) ==
  IF story_setup = << >>
  THEN [resp |-> [error |-> "EmbeddingError"], calls |-> << >>]
  ELSE LET retrieved == retrieve(idx, embed(story_setup).vector, genre)
           call == [prompt |-> FewShotPrompt(retrieved, story_setup, num_predictions),
                    output |-> output]
           parsed == IF output.ok
                     THEN SubSeq(output.candidates, 1,
                                 IF Len(output.candidates) < num_predictions
                                 THEN Len(output.candidates) ELSE num_predictions)
                     ELSE << >>
       IN IF parsed = << >>
          THEN [resp |-> [error |-> "PredictionError"], calls |-> <<call>>]
          ELSE [resp |-> [predictions |-> parsed,
                          confidence_scores |-> [i \in DOMAIN parsed |-> Confidence(i)]],
                calls |-> <<call>>]

\* ---- Story/Twist Generator
Position(out, marker) ==
  IF \E i \in DOMAIN out : out[i] = marker
  THEN CHOOSE i \in DOMAIN out : out[i] = marker /\ \A j \in 1..(i - 1) : out[j] # marker
  ELSE 0

\* the two demarcated sections of an output, when both are there and non-empty
Split(out) ==
  LET s == Position(out, "SETUP:")
      t == Position(out, "TWIST:")
  IN IF s = 0 \/ t = 0 \/ t <= s + 1 \/ t = Len(out)
     THEN [ok |-> FALSE]
     ELSE [ok |-> TRUE, story_setup |-> SubSeq(out, s + 1, t - 1),
           hidden_twist |-> SubSeq(out, t + 1, Len(out))]

StoryPrompt(genre, difficulty, strict) ==
  [instruction |-> "story", genre |-> genre, difficulty |-> difficulty, strict |-> strict]

GeneratedStory(parts, genre) ==
  [story_setup |-> parts.story_setup, hidden_twist |-> parts.hidden_twist,
   genre |-> OrElse(genre, "general")]

\* generate that gives up after the first output
generateWithoutRetry(genre, difficulty, out1, out2) ==
  LET call1 == [prompt |-> StoryPrompt(genre, difficulty, FALSE), output |-> out1]
  IN IF Split(out1).ok
     THEN [resp |-> GeneratedStory(Split(out1), genre), calls |-> <<call1>>]
     ELSE [resp |-> [error |-> "GenerationError"], calls |-> <<call1>>]

\* generate: out1 and out2 are what the model returns to the first and the stricter prompt
generate(genre, difficulty, out1, out2) ==
  LET call1 == [prompt |-> StoryPrompt(genre, difficulty, FALSE), output |-> out1]
      call2 == [prompt |-> StoryPrompt(genre, difficulty, TRUE), output |-> out2]
  IN IF Split(out1).ok
     THEN [resp |-> GeneratedStory(Split(out1), genre), calls |-> <<call1>>]
     ELSE IF Split(out2).ok
     THEN [resp |-> GeneratedStory(Split(out2), genre), calls |-> <<call1, call2>>]
     ELSE [resp |-> [error |-> "GenerationError"], calls |-> <<call1, call2>>]

\* ---- the operations of the model server: startup build, then independent requests
QueryVectors == {0, 1, 4}

ScoreTexts == {<< >>, WordsButler, WordsMurder, WordsAliens}

\* tags_guess and tags_actual: absent, equal, partly shared
TagPairs == {<<{}, {"horror"}>>, <<{"horror"}, {"horror"}>>, <<{"horror"}, {"horror", "ghost"}>>}

PredictSetups == {<< >>, WordsStorm}

PredictGenres == {Undefined, "horror", "sci-fi"}

NoOperation == [op |-> "none"]

Served(req, resp, calls) ==
  /\ msReq' = req
  /\ msResp' = resp
  /\ genLog' = calls

Build ==
  \E examples \in Corpora :
    /\ index = << >>
    /\ LET built == indexBuild(examples)
       IN IF "error" \in DOMAIN built
          THEN /\ Served([op |-> "build", examples |-> examples], built, << >>)
               /\ UNCHANGED index
          ELSE /\ Served([op |-> "build", examples |-> examples],
                         [size |-> Len(built.index)], << >>)
               /\ index' = built.index

Query ==
  \E v \in QueryVectors, k \in 1..(MaxCorpus + 1) :
    /\ index # << >>
    /\ Served([op |-> "query", vector |-> v, k |-> k],
              [results |-> indexQuery(index, v, k)], << >>)
    /\ UNCHANGED index

Predict ==
  \E story_setup \in PredictSetups, genre \in PredictGenres,
     num_predictions \in 1..MaxPredictions, output \in PredictionOutputs :
    /\ index # << >>
    /\ LET p == predict(index, story_setup, genre, num_predictions, output)
       IN Served([op |-> "predict", story_setup |-> story_setup, genre |-> genre,
                  num_predictions |-> num_predictions], p.resp, p.calls)
    /\ UNCHANGED index

Score ==
  \E guess \in ScoreTexts, actual_twist \in ScoreTexts, tags \in TagPairs :
    /\ index # << >>
    /\ Served([op |-> "score", guess |-> guess, actual_twist |-> actual_twist,
               tags_guess |-> tags[1], tags_actual |-> tags[2]],
              score(guess, actual_twist, tags[1], tags[2]), << >>)
    /\ UNCHANGED index

Generate ==
  \E genre \in {Undefined, "mystery"}, out1 \in StoryOutputs, out2 \in RetryOutputs :
    /\ index # << >>
    /\ LET g == generate(genre, "medium", out1, out2)
       IN Served([op |-> "generate", genre |-> genre, difficulty |-> "medium"],
                 g.resp, g.calls)
    /\ UNCHANGED index

NextServer ==
  \/ Build /\ UNCHANGED <<roomVars, apiVars, logVars, streamVars, revealVars>>
  \/ Query /\ UNCHANGED <<roomVars, apiVars, logVars, streamVars, revealVars>>
  \/ Predict /\ UNCHANGED <<roomVars, apiVars, logVars, streamVars, revealVars>>
  \/ Score /\ UNCHANGED <<roomVars, apiVars, logVars, streamVars, revealVars>>
  \/ Generate /\ UNCHANGED <<roomVars, apiVars, logVars, streamVars, revealVars>>

\* ================================================================ specs
Init ==
  /\ sockets = [s \in Sockets |-> Undefined]
  /\ rooms = << >>
  /\ timers = {}
  /\ lastEmit = << >>
  /\ reported = [c \in RoomCodes |-> NoReports]
  /\ serverPc = "start"
  /\ db = [pool |-> "null", useFallback |-> FALSE]
  /\ pgUp \in BOOLEAN
  /\ pg = EmptyTables
  /\ now = 0
  /\ nreq = 0
  /\ lastReq = NoRequest
  /\ lastResp = NoResponse
  /\ queryLog = << >>
  /\ modelLog = << >>
  /\ predictLog = {}
  /\ generated = {}
  /\ fe = InitPage
  /\ logContext = NoContext
  /\ reqs = [r \in LogRequests |-> [pc |-> "new", header |-> Undefined]]
  /\ logEntries = {}
  /\ eventSource = NoSource
  /\ sources = << >>
  /\ hook = InitHook
  /\ delivered = << >>
  /\ stage = "blurred"
  /\ displayedText = << >>
  /\ skipped = FALSE
  /\ effect = StageEffect("blurred", FALSE)
  /\ onCompleteProp = TRUE
  /\ renders = 0
  /\ pendingComplete = 0
  /\ completeCalls = 0
  /\ inputs = << >>
  /\ index = << >>
  /\ msReq = NoOperation
  /\ msResp = NoOperation
  /\ genLog = << >>

SpecRooms == Init /\ [][NextRooms]_vars

\* Node fires every setTimeout callback that was registered
SpecRoomsLive ==
  /\ Init
  /\ [][NextRooms]_vars
  /\ \A c \in RoomCodes :
       WF_vars(CleanupTimer(c) /\ UNCHANGED <<apiVars, logVars, streamVars, revealVars, serverVars>>)

SpecApi == Init /\ [][NextApi]_vars

SpecLog == Init /\ [][NextLog]_vars

SpecStream == Init /\ [][NextStream]_vars

\* the browser fires every timer that is set
SpecReveal ==
  /\ Init
  /\ [][NextReveal]_vars
  /\ WF_vars(blurTimeout /\ UNCHANGED <<roomVars, apiVars, logVars, streamVars, serverVars>>)
  /\ WF_vars(typeInterval /\ UNCHANGED <<roomVars, apiVars, logVars, streamVars, serverVars>>)
  /\ WF_vars(onCompleteTimeout /\ UNCHANGED <<roomVars, apiVars, logVars, streamVars, serverVars>>)

SpecServer == Init /\ [][NextServer]_vars

\* =============================================================== claims
OkResponse(route) == lastReq.route = route /\ lastResp.status = 200

ModelServerAnswered == modelLog # << >> /\ \A i \in 1..Len(modelLog) : modelLog[i].ok

ModelRoutes == {"ai-guess", "score-twist", "generate-story", "human-guess"}

\* C1: the response of POST /api/generate-story carries the generated hidden twist in
\* none of its text fields (the twist stays on the server until the guess is scored).
C1_TwistWithheld ==
  OkResponse("generate-story") =>
    \A k \in (DOMAIN lastResp.body) \ {"session_id"} :
      lastResp.body[k] # modelLog[1].data.hidden_twist

\* C2: the twist POST /api/human-guess scores against, stores as actual_twist and reveals
\* is the hidden twist the model server generated with the story setup of that session.
C2_ScoredAgainstSessionTwist ==
  OkResponse("human-guess") =>
    \E g \in generated :
      /\ g.session_id = lastReq.body.session_id.v
      /\ g.story_setup = lastReq.body.story_setup
      /\ modelLog[1].body.actual_twist = g.hidden_twist
      /\ lastResp.body.actual_twist = g.hidden_twist
      /\ ~db.useFallback =>
            pg.game_results[Len(pg.game_results)].actual_twist = g.hidden_twist

\* C3: when the connection test of initialize fails the server still listens, in fallback
\* mode; every db.query then returns one row without throwing, and the four game routes
\* answer 200 whenever the model server answered.
C3_FallbackServes ==
  (~pgUp /\ serverPc # "start") =>
    /\ serverPc = "listening"
    /\ db.useFallback
    /\ \A i \in 1..Len(queryLog) : queryLog[i].ok /\ queryLog[i].rowCount = 1
    /\ (lastReq.route \in ModelRoutes /\ ModelServerAnswered) => lastResp.status = 200

C3_Witness == ~pgUp /\ OkResponse("human-guess") /\ Len(queryLog) = 3

\* the limit the documentation promises: the number given, 10 when absent or not a number
DocumentedLimit(cs) == LET n == parseInt(cs) IN IF n.nan THEN DefaultLimit ELSE n.v

\* C4: GET /api/leaderboard returns at most limit entries, only entries of the requested
\* mode for the two known modes, ordered by score descending, then created_at descending.
C4_LeaderboardContract ==
  OkResponse("leaderboard") =>
    LET L == lastResp.body.leaderboard
    IN /\ Len(L) <= DocumentedLimit(lastReq.body.limit)
       /\ lastReq.body.mode \in {"ai_guess", "human_guess"} =>
             \A i \in 1..Len(L) : "mode" \in DOMAIN L[i] /\ L[i].mode = lastReq.body.mode
       /\ \A i, j \in 1..Len(L) :
             (i < j /\ "score" \in DOMAIN L[i] /\ "score" \in DOMAIN L[j]) =>
               OrderedBefore(L[i], L[j])

\* C5: every entry GET /api/leaderboard returns is a recorded leaderboard row with its
\* player_name, mode, score and created_at, with or without PostgreSQL.
C5_EntriesWereRecorded ==
  OkResponse("leaderboard") =>
    \A i \in 1..Len(lastResp.body.leaderboard) :
      LET e == lastResp.body.leaderboard[i]
      IN /\ DOMAIN e = {"player_name", "mode", "score", "created_at"}
         /\ \E k \in 1..Len(pg.leaderboard) : LeaderboardEntry(pg.leaderboard[k]) = e

SameButTwist(a, b) ==
  /\ a.story_setup = b.story_setup
  /\ a.genre = b.genre
  /\ a.player_name = b.player_name

\* C6: two /api/ai-guess requests that differ only in actual_twist make the backend send
\* the same body to /predict-twist.
C6_TwistHiddenFromModel ==
  \A a, b \in predictLog : SameButTwist(a.req, b.req) => a.sent = b.sent

C6_Witness ==
  \E a, b \in predictLog :
    SameButTwist(a.req, b.req) /\ a.req.actual_twist # b.req.actual_twist

\* C7: the predictions and confidence_scores of the /api/ai-guess response are the arrays
\* the model server returned, also when it returned fewer than the 3 requested.
C7_PredictionsPassedThrough ==
  OkResponse("ai-guess") =>
    /\ lastResp.body.predictions = modelLog[1].data.predictions
    /\ lastResp.body.confidence_scores = modelLog[1].data.confidence_scores

C7_Witness ==
  /\ OkResponse("ai-guess")
  /\ Len(modelLog[1].data.predictions) = 1
  /\ modelLog[1].body.num_predictions = 3

\* C8: every ModelClient call makes one HTTP attempt; a failed predictTwist, generateStory
\* or scoreGuess makes the route answer with an error, a failed healthCheck returns false.
C8_SingleAttemptNoRetry ==
  /\ \A i \in 1..Len(modelLog) : modelLog[i].attempts = 1
  /\ (lastReq.route \in ModelRoutes /\ \E i \in 1..Len(modelLog) : ~modelLog[i].ok) =>
        /\ lastResp.status = 400
        /\ DOMAIN lastResp.body = {"error"}
  /\ (lastReq.route = "healthCheck()" /\ ~modelLog[1].ok) => lastResp.body.value = FALSE

C8_Witness ==
  /\ lastReq.route = "score-twist"
  /\ modelLog # << >>
  /\ ~modelLog[1].ok
  /\ lastResp.status = 400

\* C9: every log entry written while a request is handled carries the correlation id set
\* in that request's X-Correlation-ID response header.
C9_EntriesCarryOwnCorrelationId ==
  \A e \in logEntries : e.entry.correlationId = reqs[e.req].header

\* C10: every room holds at most 2 players.
C10_AtMostTwoPlayers ==
  \A c \in DOMAIN rooms : Len(rooms[c].players) <= 2

C10_Witness ==
  /\ \E c \in DOMAIN rooms : Len(rooms[c].players) = 2
  /\ lastEmit # << >>
  /\ lastEmit[1].event = "error"
  /\ lastEmit[1].payload.message = "Room is full"

\* C11: once the cleanup function streamPredictions returned has been called, the
\* EventSource of that stream is closed and no onUpdate, onComplete or onError is
\* delivered for that stream afterwards.
C11_CleanupStopsStream ==
  \A i \in 1..Len(delivered) :
    delivered[i].what = "cleanup" =>
      /\ sources[delivered[i].stream] = "CLOSED"
      /\ \A j \in (i + 1)..Len(delivered) : delivered[j].stream # delivered[i].stream

C11_Witness ==
  \E i, j, k \in 1..Len(delivered) :
    /\ i < j /\ j < k
    /\ delivered[i].what = "onUpdate"
    /\ delivered[j] = [stream |-> delivered[i].stream, what |-> "cleanup"]
    /\ \A n \in 1..(j - 1) :
         delivered[n].stream = delivered[i].stream => delivered[n].what = "onUpdate"
    /\ delivered[k].what = "onUpdate"

SkipInputs == {"button", " ", "Enter", "Escape"}

\* C12: from any stage before 'revealed', clicking Skip or pressing Space, Enter or Escape
\* moves TwistReveal to 'revealed' with the complete twist text displayed, and the
\* onComplete the parent passed is called afterwards.
C12_SkipRevealsAndCompletes ==
  /\ [][(/\ Len(inputs') = Len(inputs) + 1
         /\ inputs'[Len(inputs')].via \in SkipInputs
         /\ stage # "revealed")
        => (/\ stage' = "revealed"
            /\ displayedText' = TwistText
            /\ onCompleteProp => pendingComplete' = pendingComplete + 1)]_vars
  /\ (\E i \in 1..Len(inputs) :
        inputs[i].via \in SkipInputs /\ inputs[i].from # "revealed" /\ inputs[i].onComplete)
       ~> (completeCalls > 0)

C12_Witness ==
  /\ Len(inputs) = 1
  /\ inputs[1] = [via |-> "Escape", from |-> "typewriter", onComplete |-> TRUE]
  /\ stage = "revealed"
  /\ displayedText = TwistText
  /\ completeCalls = 1

\* the requests the documentation says fail validation
FailsValidation(req) ==
  \/ /\ req.route = "ai-guess"
     /\ Len(req.body.story_setup) < 10 \/ Len(req.body.actual_twist) < 5
  \/ /\ req.route = "score-twist"
     /\ Len(req.body.selected_prediction) < 5 \/ req.body.session_id.kind # "int"
  \/ /\ req.route = "human-guess"
     /\ Len(req.body.player_guess) < 5 \/ req.body.session_id.kind # "int"

\* C13: a request failing validation (/api/ai-guess with story_setup under 10 or
\* actual_twist under 5 characters; /api/score-twist or /api/human-guess with a guess under
\* 5 characters or a non-integer session_id) is answered 400 with no database statement
\* sent, no row written and no model-server call made.
C13_InvalidRejectedBeforeEffects ==
  [][(nreq' = nreq + 1 /\ FailsValidation(lastReq'))
     => (/\ lastResp'.status = 400
         /\ queryLog' = << >>
         /\ modelLog' = << >>
         /\ pg' = pg)]_vars

C13_Witness ==
  /\ lastReq.route = "human-guess"
  /\ lastReq.body.session_id.kind = "float"
  /\ lastResp.status = 400
  /\ pg.game_sessions # << >>

ScoredValidTexts ==
  msReq.op = "score" /\ msReq.guess # << >> /\ msReq.actual_twist # << >>

\* C14: for every non-empty guess and non-empty actual_twist, with or without tags,
\* score() returns a final_score between 0 and 100 inclusive.
C14_FinalScoreInRange ==
  ScoredValidTexts =>
    /\ "final_score" \in DOMAIN msResp
    /\ msResp.final_score >= 0
    /\ msResp.final_score <= 100

C14_Witness ==
  /\ ScoredValidTexts
  /\ CosineSimilarity(Direction(msReq.guess), Direction(msReq.actual_twist)) < 0
  /\ msReq.tags_guess = {}
  /\ msResp.final_score = 0

\* C15: score(x, x) returns final_score exactly 100 for every non-empty x.
C15_ExactMatchScores100 ==
  (ScoredValidTexts /\ msReq.guess = msReq.actual_twist) => msResp.final_score = 100

C15_Witness ==
  /\ ScoredValidTexts
  /\ msReq.guess = WordsButler
  /\ msReq.actual_twist = WordsButler
  /\ msResp.tag_overlap = 0
  /\ msResp.final_score = 100

\* position of a stored example in the index, 0 when it is not stored
IndexPosition(example) ==
  IF \E i \in 1..Len(index) : index[i].example = example
  THEN CHOOSE i \in 1..Len(index) : index[i].example = example
  ELSE 0

\* C16: index.query(v, k) returns at most k results, all entries when k exceeds the corpus
\* size, ordered by similarity descending with equally similar entries in corpus insertion
\* order, and no stored entry left out is more similar than a returned one.
C16_QueryTopKStable ==
  msReq.op = "query" =>
    LET R == msResp.results
        sim(i) == CosineSimilarity(index[i].vector, msReq.vector)
        returned == {IndexPosition(R[r].example) : r \in 1..Len(R)}
    IN /\ Len(R) <= msReq.k
       /\ msReq.k >= Len(index) => Len(R) = Len(index)
       /\ \A r \in 1..Len(R) :
            /\ IndexPosition(R[r].example) # 0
            /\ R[r].similarity = sim(IndexPosition(R[r].example))
       /\ \A r1, r2 \in 1..Len(R) :
            r1 < r2 =>
              /\ R[r1].similarity >= R[r2].similarity
              /\ R[r1].similarity = R[r2].similarity =>
                   IndexPosition(R[r1].example) < IndexPosition(R[r2].example)
       /\ \A i \in (1..Len(index)) \ returned :
            \A r \in 1..Len(R) : sim(i) <= R[r].similarity

C16_Witness ==
  /\ msReq.op = "query"
  /\ msReq.k = 1
  /\ Len(index) = 2
  /\ CosineSimilarity(index[1].vector, msReq.vector)
       = CosineSimilarity(index[2].vector, msReq.vector)
  /\ Len(msResp.results) = 1
  /\ msResp.results[1].example = index[1].example

\* a predict request whose setup can be embedded and whose genre no stored example has
UnknownGenre ==
  /\ msReq.op = "predict"
  /\ msReq.story_setup # << >>
  /\ msReq.genre # Undefined
  /\ \A i \in 1..Len(index) : index[i].example.genre # msReq.genre

ReturnedCandidates == "predictions" \in DOMAIN msResp /\ msResp.predictions # << >>

\* C17: given a genre that no corpus example has, retrieval falls back to the unfiltered
\* top-K and predict still returns candidates: the genre makes no difference to the answer,
\* which is an error only when the generative model failed or returned no candidate.
C17_UnknownGenreFallsBack ==
  UnknownGenre =>
    LET output == genLog[1].output
        unfiltered == indexQuery(index, Direction(msReq.story_setup), 3)
    IN /\ Len(genLog) = 1
       /\ genLog[1].prompt.examples =
            [i \in DOMAIN unfiltered |->
               [story_setup |-> unfiltered[i].example.story_setup,
                twist |-> unfiltered[i].example.twist]]
       /\ genLog[1].prompt.examples # << >>
       /\ IF output.ok /\ output.candidates # << >>
          THEN ReturnedCandidates
          ELSE msResp = [error |-> "PredictionError"]
       /\ msResp = predict(index, msReq.story_setup, Undefined, msReq.num_predictions,
                           output).resp

C17_Witness ==
  /\ UnknownGenre
  /\ msReq.genre = "sci-fi"
  /\ Len(index) = 2
  /\ Len(genLog[1].prompt.examples) = 2
  /\ ReturnedCandidates

C19_ConfidencesRanked ==
  (msReq.op = "predict" /\ "predictions" \in DOMAIN msResp) =>
    LET conf == msResp.confidence_scores
    IN /\ Len(conf) = Len(msResp.predictions)
       /\ \A i \in 1..Len(conf) : conf[i] >= 0 /\ conf[i] <= 100
       /\ \A i \in 1..(Len(conf) - 1) : conf[i] >= conf[i + 1]

C19_Witness ==
  /\ msReq.op = "predict"
  /\ msReq.num_predictions = 3
  /\ "predictions" \in DOMAIN msResp
  /\ Len(msResp.predictions) = 3
  /\ msResp.confidence_scores = <<100, 90, 80>>

JoinErrors == {"Room not found", "Room already started", "Room is full"}

\* C20: join_room adds the player only when the room exists, its status is 'waiting' and
\* it holds fewer than 2 players; otherwise the sender gets the error 'Room not found',
\* 'Room already started' or 'Room is full', the rooms are unchanged and no player_joined
\* is broadcast.
C20_JoinOnlyWhenOpen ==
  [][\A s \in Sockets, code \in RoomCodes :
       join_room(s, code) =>
         IF /\ code \in DOMAIN rooms
            /\ rooms[code].status = "waiting"
            /\ Len(rooms[code].players) < 2
         THEN /\ \E i \in 1..Len(rooms'[code].players) :
                   /\ rooms'[code].players[i].name = sockets[s]
                   /\ rooms'[code].players[i].socketId = s
              /\ lastEmit'[1].event = "player_joined"
         ELSE /\ rooms' = rooms
              /\ Len(lastEmit') = 1
              /\ lastEmit'[1] =
                   ToSocket(s, "error",
                            [message |->
                               IF code \notin DOMAIN rooms THEN "Room not found"
                               ELSE IF rooms[code].status # "waiting"
                               THEN "Room already started" ELSE "Room is full"])
              /\ lastEmit'[1].payload.message \in JoinErrors]_vars

C20_Witness ==
  /\ lastEmit # << >>
  /\ lastEmit[1].event = "error"
  /\ lastEmit[1].payload.message = "Room already started"
  /\ \E c \in DOMAIN rooms : rooms[c].status = "playing" /\ Len(rooms[c].players) = 1

\* C21: start_round moves a room to 'playing' and increments currentRound by exactly 1 only
\* if the room holds 2 players at that moment; otherwise the sender gets 'Need 2 players to
\* start' and status and currentRound stay unchanged.
C21_StartNeedsTwoPlayers ==
  [][\A s \in Sockets, code \in RoomCodes :
       (code \in DOMAIN rooms /\ start_round(s, code)) =>
         IF Len(rooms[code].players) = 2
         THEN /\ rooms'[code].status = "playing"
              /\ rooms'[code].currentRound = rooms[code].currentRound + 1
         ELSE /\ rooms'[code].status = rooms[code].status
              /\ rooms'[code].currentRound = rooms[code].currentRound
              /\ lastEmit' = <<ToSocket(s, "error",
                                        [message |-> "Need 2 players to start"])>>]_vars

C21_Witness ==
  /\ lastEmit # << >>
  /\ lastEmit[1].event = "round_started"
  /\ lastEmit[1].payload.round = 2
  /\ \E c \in DOMAIN rooms :
       /\ rooms[c].status = "playing"
       /\ rooms[c].currentRound = 2
       /\ Len(rooms[c].players) = 2

\* C22: every room stored in rooms holds at least one player: a room is deleted as soon as
\* its last player leaves or disconnects.
C22_NoEmptyRoom ==
  \A c \in DOMAIN rooms : Len(rooms[c].players) >= 1

\* the last player of a room has just left and the room is gone
C22_Witness ==
  /\ lastEmit # << >>
  /\ lastEmit[1].event = "player_left"
  /\ lastEmit[1].target \notin DOMAIN rooms

\* C23: once a room's match has finished, the room is eventually removed from rooms, by the
\* cleanup timer registered at the finish or earlier when its last player leaves.
C23_FinishedRoomRemoved ==
  \A c \in RoomCodes :
    (c \in DOMAIN rooms /\ rooms[c].status = "finished") ~> (c \notin DOMAIN rooms)

\* a match has just finished and its cleanup timer is registered
C23_Witness ==
  /\ Len(lastEmit) = 2
  /\ lastEmit[2].event = "match_finished"
  /\ \E c \in DOMAIN rooms : rooms[c].status = "finished" /\ c \in timers

\* C24: room codes are unique among live rooms: create_room never replaces or alters a room
\* that already exists in rooms (the code it draws is not the code of a stored room).
C24_CreateNeverReplaces ==
  [][\A s \in Sockets, code \in RoomCodes, m \in MaxRoundsInputs :
       create_room(s, code, m) => code \notin DOMAIN rooms]_vars

\* C25: when match_finished is emitted, its scores list holds every player of the room with
\* the sum of the scores round_result reported for that player, sorted descending, and winner
\* is a player of the room whose total is the maximum.
C25_FinalScoresAreTotals ==
  (Len(lastEmit) = 2 /\ lastEmit[2].event = "match_finished") =>
    LET code == lastEmit[2].target
        scores == lastEmit[2].payload.scores
        winner == lastEmit[2].payload.winner
        players == rooms[code].players
    IN /\ Len(scores) = Len(players)
       /\ \A i \in 1..Len(players) :
            \E j \in 1..Len(scores) :
              /\ scores[j].name = players[i].name
              /\ scores[j].score = reported[code][players[i].name]
       /\ \A j \in 1..Len(scores) - 1 : scores[j].score >= scores[j + 1].score
       /\ Len(winner) = 1
       /\ PlayersHas(players, winner[1].name)
       /\ \A i \in 1..Len(players) :
            reported[code][winner[1].name] >= reported[code][players[i].name]

\* C29: currentRound never exceeds maxRounds: in every reachable state each stored room has
\* currentRound <= maxRounds.
C29_RoundWithinMax ==
  \A c \in DOMAIN rooms : rooms[c].currentRound <= rooms[c].maxRounds

StatusRank(status) ==
  CASE status = "waiting" -> 0
    [] status = "playing" -> 1
    [] status = "finished" -> 2

\* C30: the status of a stored room only moves forward through waiting, playing, finished:
\* no event takes a room back, and a 'finished' room never becomes 'playing' or 'waiting'.
C30_StatusOnlyForward ==
  [][\A c \in RoomCodes :
       (/\ c \in DOMAIN rooms
        /\ c \in DOMAIN rooms'
        /\ ~ \E s \in Sockets, m \in MaxRoundsInputs : create_room(s, c, m))
       => StatusRank(rooms'[c].status) >= StatusRank(rooms[c].status)]_vars

TerminalCallbacks == {"onComplete", "onError"}

\* C26: for one prediction stream, a 'complete' message causes onComplete to be called once
\* and the EventSource to be closed, with no onUpdate or onError delivered afterwards; a parse
\* failure or a connection error causes onError to be called and the EventSource to be
\* closed; so each stream ends with at most one terminal callback.
C26_OneTerminalCallback ==
  /\ [](\A i, j \in 1..Len(delivered) :
          (/\ i < j
           /\ delivered[i].stream = delivered[j].stream
           /\ delivered[i].what \in TerminalCallbacks)
          => delivered[j].what \notin TerminalCallbacks \cup {"onUpdate"})
  /\ [][\A s \in StreamIds :
          /\ onmessage(s, "complete") =>
               /\ delivered' = Append(delivered, [stream |-> s, what |-> "onComplete"])
               /\ sources'[s] = "CLOSED"
          /\ (onmessage(s, "not json") \/ onerror(s)) =>
               /\ delivered' = Append(delivered, [stream |-> s, what |-> "onError"])
               /\ sources'[s] = "CLOSED"]_vars

\* a stream delivered an update and then its final message, and a later stream failed
C26_Witness ==
  \E i, j, k \in 1..Len(delivered) :
    /\ i < j
    /\ j < k
    /\ delivered[i].stream = delivered[j].stream
    /\ delivered[i].what = "onUpdate"
    /\ delivered[j].what = "onComplete"
    /\ sources[delivered[j].stream] = "CLOSED"
    /\ delivered[k].what = "onError"
    /\ sources[delivered[k].stream] = "CLOSED"

StageRank(st) ==
  CASE st = "blurred" -> 0
    [] st = "typewriter" -> 1
    [] st = "revealed" -> 2

\* C27: the stage of TwistReveal only moves forward in the order blurred, typewriter,
\* revealed (skip may jump straight to revealed); once it is 'revealed' it never changes.
C27_StageOnlyForward ==
  [][StageRank(stage') >= StageRank(stage)]_vars

\* the text was revealed and a skip key was pressed afterwards
C27_Witness ==
  /\ stage = "revealed"
  /\ \E i \in 1..Len(inputs) : inputs[i].from = "revealed" /\ inputs[i].via \in SkipKeys

IsPrefix(p, t) == Len(p) <= Len(t) /\ p = SubSeq(t, 1, Len(p))

\* C28: without any skip, TwistReveal eventually reaches 'revealed': it leaves 'blurred' after
\* the blur delay, types the text one character per tick so that displayedText is always a
\* prefix of twistText, and after the whole text is shown becomes 'revealed' and calls
\* onComplete.
C28_RevealTerminates ==
  /\ [] IsPrefix(displayedText, TwistText)
  /\ <>(skipped \/ stage = "revealed")
  /\ [][(~ skipped' /\ stage = "blurred") => stage' \in {"blurred", "typewriter"}]_vars
  /\ [][(~ skipped' /\ stage # "revealed" /\ stage' = "revealed") =>
          /\ displayedText = TwistText
          /\ displayedText' = TwistText
          /\ onCompleteProp => pendingComplete' = pendingComplete + 1]_vars
  /\ (pendingComplete > 0) ~> (completeCalls > 0)

\* the text was typed to the end without a skip and onComplete was called
C28_Witness ==
  /\ ~ skipped
  /\ stage = "revealed"
  /\ displayedText = TwistText
  /\ completeCalls = 1

EmitsMatchFinished(code) ==
  \E i \in 1..Len(lastEmit) :
    lastEmit[i].event = "match_finished" /\ lastEmit[i].target = code

\* C31: for each room, match_finished is emitted at most once, and only after every player
\* of the room has reported a result for the final round: a round_result that emits it acts
\* on a room that is not finished yet and, in a room of two players, is not the first event
\* after the round_started of that round.
C31_MatchFinishedOnce ==
  [][\A s \in Sockets, code \in RoomCodes, n \in PlayerNames, sc \in ScoreInputs :
       (round_result(s, code, n, sc) /\ EmitsMatchFinished(code)') =>
         /\ rooms[code].status # "finished"
         /\ Len(rooms[code].players) = 2 =>
              ~ (/\ Len(lastEmit) = 1
                 /\ lastEmit[1].event = "round_started"
                 /\ lastEmit[1].target = code)]_vars

\* C32: start_round and round_result events naming a room change that room's state (status,
\* currentRound, player scores) only when the sending socket's authenticated player is a
\* member of the room, and round_result changes only the sender's own score.
C32_OnlyMembersChangeRoom ==
  [][\A s \in Sockets, code \in RoomCodes :
       /\ (/\ code \in DOMAIN rooms
           /\ ~ PlayersHas(rooms[code].players, sockets[s])
           /\ \/ start_round(s, code)
              \/ \E n \in PlayerNames, sc \in ScoreInputs : round_result(s, code, n, sc))
          => rooms'[code] = rooms[code]
       /\ \A n \in PlayerNames, sc \in ScoreInputs :
            (code \in DOMAIN rooms /\ round_result(s, code, n, sc)) =>
              \A i \in 1..Len(rooms[code].players) :
                rooms[code].players[i].name # sockets[s] =>
                  rooms'[code].players[i].score = rooms[code].players[i].score]_vars

====
